---- MODULE Spec2Model ----
(***************************************************************************)
(* A model of GeoSearch (src/src/GeoSearch/geosearch.py): the index build  *)
(* (download / _indexfile), the tiered name search (find), the bounding    *)
(* box search (findpos), the hierarchy resolver (_add_hierarchy) and the   *)
(* result enricher (_add_description).                                     *)
(*                                                                         *)
(* The index library (whoosh) is modelled at the calls the code makes:     *)
(*   - the committed index is a sequence of stored documents, in insertion *)
(*     order; create_in publishes an empty index at once;                  *)
(*   - a writer buffers added documents and marks deletions against the    *)
(*     segments that were committed when it was opened; commit publishes   *)
(*     both in one step;                                                   *)
(*   - a searcher reads the content committed when it is opened.           *)
(* A place keeps the schema fields the modelled code reads; coordinates    *)
(* are integers (fixed-point units of a degree); a name is one analysed    *)
(* term, a tuple of characters.                                            *)
(***************************************************************************)
EXTENDS Integers, Sequences, FiniteSets, TLC

VARIABLES
    \* ---- the index directory on disk
    dirExists,      \* os.path.exists(indexdir)
    indexExists,    \* the directory holds an index (a table of contents)
    index,          \* the committed documents, in insertion order
    placecodes,     \* placecodes.json: "absent", "empty" or "table"
    \* ---- download(...) / _indexfile(...)
    bpc,            \* position of the build: idle, loop, file, done
    mode,           \* the overwrite argument download was called with
    overwrite,      \* download's local variable overwrite
    append,         \* download's local variable append
    nfiles,         \* files of the archive taken so far
    iline,          \* lines of the current file processed so far
    writer,         \* the open writer of _indexfile, or NoWriter
    fed,            \* the lines read so far, each with its file number
    failedFiles,    \* the files whose _indexfile call raised
    pre,            \* the directory's state when download was called
    lastPub,        \* what published the committed content last
    view,           \* what a concurrent searcher last opened on
    \* ---- find(...) / findpos(...)
    qpc,            \* position of the query: idle, tiers, done
    call,           \* the arguments of the running query
    searcher,       \* the content the query's searcher reads, or NoSearcher
    levels,         \* find's list levels
    queried,        \* the tiers queried so far, each with its hit count
    reads,          \* index reads issued by _add_hierarchy, per hit
    found,          \* the list the query returns
    raised,         \* the exception the query ended with, or "none"
    place_codes     \* self.place_codes: "none", or the table loaded

vars == <<dirExists, indexExists, index, placecodes, bpc, mode, overwrite,
          append, nfiles, iline, writer, fed, failedFiles, pre, lastPub, view,
          qpc, call, searcher, levels, queried, reads, found, raised,
          place_codes>>

diskVars  == <<dirExists, indexExists, index>>
buildVars == <<bpc, mode, overwrite, append, nfiles, iline, writer, fed,
               failedFiles, pre, lastPub, view>>
queryVars == <<qpc, call, searcher, levels, queried, reads, found, raised,
               place_codes>>

\* ------------------------------------------------------------------ bounds

\* Lines one build reads, over all its files.
MaxLines == 3
\* Files in the archive of one build.
MaxFiles == 2
\* The records per batch commit; the code's 1000000, scaled down so that a
\* build of MaxLines lines crosses a batch boundary.
BatchSize == 2
\* Documents in the index a name search runs on.
MaxDocs == 3
\* Documents in the index the hierarchy resolver runs on.
MaxAdminDocs == 4
\* Documents in the index a bounding-box search runs on.
MaxGeoDocs == 2
\* The largest maxdist a search is called with.
MaxDistTried == 3

\* ------------------------------------------------------------------ places

\* len(atbnames): the fields a well-formed line splits into.
NumFields == 19

Place(id, nm, lat, lon, fclass, fcode, cc, a1, a2, a3, a4) ==
    [geonameid |-> id, name |-> nm, latitude |-> lat, longitude |-> lon,
     feature_class |-> fclass, feature_code |-> fcode, country_code |-> cc,
     admin1_code |-> a1, admin2_code |-> a2, admin3_code |-> a3,
     admin4_code |-> a4]

\* A line of a source file: the number of tab-separated fields and, for a
\* well-formed line, the record they hold.
Line(n, rec) == [nfields |-> n, rec |-> rec]


BoundedSeq(S, n) == UNION {[1..k -> S] : k \in 0..n}

\* The positions of seq, in order, that satisfy Keep.
RECURSIVE SelectPositions(_, _, _)
SelectPositions(seq, keep, i) ==
    IF i > Len(seq) THEN <<>>
    ELSE (IF i \in keep THEN <<seq[i]>> ELSE <<>>) \o SelectPositions(seq, keep, i + 1)

\* ------------------------------------------------ the index library's calls

NoWriter == [open |-> FALSE, segments |-> <<>>, deleted |-> {}, buffer |-> <<>>]

\* whooidx.writer(): a writer over the segments committed so far.
Writer(committed) ==
    [open |-> TRUE, segments |-> committed, deleted |-> {}, buffer |-> <<>>]

\* whoowriter.add_document(**sample): one more buffered document.
AddDocument(w, sample) == [w EXCEPT !.buffer = Append(@, sample)]

\* whoowriter.update_document(**sample): the committed documents with the
\* sample's value in the unique field geonameid are marked deleted, then the
\* sample is added.
UpdateDocument(w, sample) ==
    LET same == {i \in DOMAIN w.segments :
                    w.segments[i].geonameid = sample.geonameid}
    IN  [w EXCEPT !.deleted = @ \cup same, !.buffer = Append(@, sample)]

\* whoowriter.commit(): the content the commit publishes.
CommitResult(w) ==
    SelectPositions(w.segments, DOMAIN w.segments \ w.deleted, 1) \o w.buffer

\* ------------------------------------------------------------- the build

\* The places a build reads: two records with the same id, one with another.
R1a == Place("1", <<"a", "b">>, 0, 0, "P", "PPL", "BR", "", "", "", "")
R1b == Place("1", <<"a", "c">>, 0, 0, "P", "PPL", "BR", "", "", "", "")
R2  == Place("2", <<"b", "b">>, 0, 0, "P", "PPL", "BR", "", "", "", "")
BuildPlaces == {R1a, R1b, R2}

\* The lines of a source file: well-formed ones, and one with a field short.
BadLine == Line(NumFields - 1, R2)
BuildLines == {Line(NumFields, r) : r \in BuildPlaces} \cup {BadLine}

\* What download may find on disk: no directory, a directory without an index,
\* or an index some earlier build committed.
PreStates ==
    {[dir |-> FALSE, exists |-> FALSE, content |-> <<>>],
     [dir |-> TRUE, exists |-> FALSE, content |-> <<>>]}
    \cup {[dir |-> TRUE, exists |-> TRUE, content |-> c] :
            c \in {<<>>, <<R1a>>, <<R2>>, <<R1a, R2>>}}

\* placecodes.json: absent, the JSON object {} (a page without code rows), or
\* the table _build_feature_codes scraped.
CodeFiles == {"absent", "empty", "table"}

\* The table _build_feature_codes writes to placecodes.json.
CodeTable ==
    [P |-> [descr |-> "city, village", codes |-> [PPL |-> [short |-> "populated place", full |-> "a city, town or village"]]],
     A |-> [descr |-> "country, state, region", codes |-> [ADM1 |-> [short |-> "first-order administrative division", full |-> "a primary administrative division"]]]]

\* A slip in download: append = not overwrite.
AppendFlagNegated(ow) == ~ow

\* download: append = overwrite
AppendFlag(ow) == ow

\* A slip in _indexfile: the batch closes on the first line of each batch.
BatchBoundaryOffByOne(i) == i % BatchSize = 0

\* _indexfile: if iline % 1000000 == 999999
BatchBoundary(i) == i % BatchSize = BatchSize - 1

\* A slip in _indexfile: the two branches swapped.
InsertDocumentSwapped(w, app, sample) ==
    IF app THEN UpdateDocument(w, sample) ELSE AddDocument(w, sample)

\* _indexfile: if append: add_document else: update_document
InsertDocument(w, app, sample) ==
    IF app THEN AddDocument(w, sample) ELSE UpdateDocument(w, sample)

\* A slip in _indexfile: the index is created on overwrite only.
CreatesIndexOnOverwriteOnly(ow, dir) == ow

\* _indexfile: if overwrite or (not os.path.exists(indexdir))
CreatesIndex(ow, dir) == ow \/ ~dir

\* A slip in download: overwrite is not cleared after a file.
OverwriteKept(ow) == ow

\* download: overwrite=False, after a file indexed without error
OverwriteAfterFile(ow) == FALSE

\* What published the committed content: the build before this one ("pre"),
\* create_in ("create") or a commit, with the lines of the file processed up
\* to it, whether it is the file's final commit, and the content it published.
Pub(kind, n, eof, content) ==
    [kind |-> kind, lines |-> n, eof |-> eof, content |-> content]
NoView == [open |-> FALSE, content |-> <<>>, pub |-> Pub("pre", 0, FALSE, <<>>)]

\* download(overwrite=ow), up to the loop over the archive's files. The
\* feature-code page is scraped first: placecodes.json is written, or the
\* scrape fails with AttributeError, which download turns into a warning.
StartDownload(ow, codes) ==
    /\ bpc = "idle"
    /\ bpc' = "loop"
    /\ mode' = ow
    /\ overwrite' = ow
    /\ append' = AppendFlag(ow)
    /\ placecodes' = IF codes = "AttributeError" THEN placecodes ELSE codes
    /\ UNCHANGED <<diskVars, nfiles, iline, writer, fed, failedFiles, pre,
                   lastPub, view, queryVars>>

\* An earlier file of this download failed on a line: its writer was left
\* neither committed nor cancelled.
AbandonedWriter == \E i \in 1..Len(fed) : fed[i].line.nfields # NumFields

\* _indexfile, up to whooidx.writer(), for the next file of the archive.
\* open_dir on a directory without an index raises EmptyIndexError, which
\* download's except clause swallows. After a writer was abandoned, the index
\* library may still hold its write lock: whooidx.writer() then either gets
\* the lock or raises LockError (locked), which download swallows as well.
IndexfileOpen(locked) ==
    /\ bpc = "loop"
    /\ nfiles < MaxFiles
    /\ locked => AbandonedWriter
    /\ nfiles' = nfiles + 1
    /\ iline' = 0
    /\ IF CreatesIndex(overwrite, dirExists)
       THEN /\ dirExists' = TRUE
            /\ indexExists' = TRUE
            /\ index' = <<>>
            /\ lastPub' = Pub("create", 0, FALSE, <<>>)
            /\ IF locked
               THEN /\ failedFiles' = failedFiles \cup {nfiles + 1}
                    /\ UNCHANGED <<writer, bpc>>
               ELSE /\ writer' = Writer(<<>>)
                    /\ bpc' = "file"
                    /\ UNCHANGED failedFiles
       ELSE IF ~indexExists \/ locked
       THEN /\ failedFiles' = failedFiles \cup {nfiles + 1}
            /\ UNCHANGED <<diskVars, lastPub, writer, bpc>>
       ELSE /\ writer' = Writer(index)
            /\ bpc' = "file"
            /\ UNCHANGED <<diskVars, lastPub, failedFiles>>
    /\ UNCHANGED <<placecodes, mode, overwrite, append, fed, pre, view,
                   queryVars>>

\* One turn of _indexfile's loop over the file's lines. A line with the wrong
\* number of fields fails the assertion: the writer is abandoned uncommitted
\* and download goes on to the next file.
IndexfileLine(line) ==
    /\ bpc = "file"
    /\ Len(fed) < MaxLines
    /\ fed' = Append(fed, [file |-> nfiles, line |-> line])
    /\ IF line.nfields # NumFields
       THEN /\ writer' = NoWriter
            /\ failedFiles' = failedFiles \cup {nfiles}
            /\ bpc' = "loop"
            /\ UNCHANGED <<diskVars, lastPub, iline>>
       ELSE LET w == InsertDocument(writer, append, line.rec)
            IN  /\ iline' = iline + 1
                /\ IF BatchBoundary(iline)
                   THEN /\ index' = CommitResult(w)
                        /\ writer' = Writer(CommitResult(w))
                        /\ lastPub' = Pub("commit", iline + 1, FALSE, CommitResult(w))
                   ELSE /\ writer' = w
                        /\ UNCHANGED <<index, lastPub>>
                /\ UNCHANGED <<dirExists, indexExists, failedFiles, bpc>>
    /\ UNCHANGED <<placecodes, mode, overwrite, append, nfiles, pre, view,
                   queryVars>>

\* The end of the file: the final commit of _indexfile, then download's
\* overwrite=False.
IndexfileEnd ==
    /\ bpc = "file"
    /\ index' = CommitResult(writer)
    /\ lastPub' = Pub("commit", iline, TRUE, CommitResult(writer))
    /\ writer' = NoWriter
    /\ overwrite' = OverwriteAfterFile(overwrite)
    /\ bpc' = "loop"
    /\ UNCHANGED <<dirExists, indexExists, placecodes, mode, append, nfiles,
                   iline, fed, failedFiles, pre, view, queryVars>>

\* The archive has no more files: download returns.
DownloadReturn ==
    /\ bpc = "loop"
    /\ bpc' = "done"
    /\ UNCHANGED <<diskVars, placecodes, mode, overwrite, append, nfiles,
                   iline, writer, fed, failedFiles, pre, lastPub, view,
                   queryVars>>

\* A query session in another process opens a searcher: it reads the content
\* committed last.
ReaderOpen ==
    /\ indexExists
    /\ view' = [open |-> TRUE, content |-> index, pub |-> lastPub]
    /\ UNCHANGED <<diskVars, placecodes, bpc, mode, overwrite, append, nfiles,
                   iline, writer, fed, failedFiles, pre, lastPub, queryVars>>

\* The arguments of a query, and the state of a GeoSearch object between
\* queries.
Call(op, querystr, lat, lon, range, limit, maxdist, hierarchy, expand_codes) ==
    [op |-> op, querystr |-> querystr, lat |-> lat, lon |-> lon,
     range |-> range, limit |-> limit, maxdist |-> maxdist,
     hierarchy |-> hierarchy, expand_codes |-> expand_codes]
NoCall == Call("none", <<>>, 0, 0, 0, 0, 0, FALSE, FALSE)
NoSearcher == [open |-> FALSE, content |-> <<>>]

QueryIdle ==
    /\ qpc = "idle"
    /\ call = NoCall
    /\ searcher = NoSearcher
    /\ levels = <<>>
    /\ queried = <<>>
    /\ reads = <<>>
    /\ found = <<>>
    /\ raised = "none"
    /\ place_codes = "none"

InitBuild ==
    /\ \E p \in PreStates :
          /\ dirExists = p.dir
          /\ indexExists = p.exists
          /\ index = p.content
          /\ pre = p
    /\ placecodes \in CodeFiles
    /\ bpc = "idle"
    /\ mode = TRUE
    /\ overwrite = TRUE
    /\ append = TRUE
    /\ nfiles = 0
    /\ iline = 0
    /\ writer = NoWriter
    /\ fed = <<>>
    /\ failedFiles = {}
    /\ lastPub = Pub("pre", 0, FALSE, index)
    /\ view = NoView
    /\ QueryIdle

NextBuild ==
    \/ \E ow \in BOOLEAN, codes \in {"AttributeError", "table", "empty"} :
          StartDownload(ow, codes)
    \/ \E locked \in BOOLEAN : IndexfileOpen(locked)
    \/ \E line \in BuildLines : IndexfileLine(line)
    \/ IndexfileEnd
    \/ DownloadReturn
    \/ ReaderOpen

SpecBuild == InitBuild /\ [][NextBuild]_vars


\* ------------------------------------------------------ the index's terms

\* str.lower() on the codes that places carry.
Lower(s) ==
    CASE s = "BR" -> "br" [] s = "US" -> "us" [] s = "SP" -> "sp"
      [] s = "CA" -> "ca" [] s = "X1" -> "x1" [] s = "PPL" -> "ppl"
      [] s = "ADM1" -> "adm1" [] s = "ADM2" -> "adm2"
      [] s = "ADM3" -> "adm3" [] s = "ADM4" -> "adm4"
      [] OTHER -> s

\* The stop words of the analyzer of a TEXT field.
StopWords ==
    {"a", "an", "and", "are", "as", "at", "be", "by", "can", "for", "from",
     "have", "if", "in", "is", "it", "may", "not", "of", "on", "or", "tbd",
     "that", "the", "this", "to", "us", "we", "when", "will", "with", "yet",
     "you", "your"}

\* The terms a TEXT field (feature_code, country_code, admin1_code ..
\* admin4_code) indexes for a stored code: the analyzer lowercases the value
\* and drops stop words and tokens shorter than two characters.
Tokens(value) ==
    IF value = "" \/ Lower(value) \in StopWords \/ Len(Lower(value)) < 2
    THEN {}
    ELSE {Lower(value)}

\* wq.Term(fieldname, text)
Term(field, text) == [field |-> field, text |-> text]
TermMatches(doc, term) == term.text \in Tokens(doc[term.field])

\* searcher.search(wq.And(conditions)): the matching documents, in index order.
SearchAnd(content, conditions) ==
    SelectSeq(content,
              LAMBDA d : \A i \in DOMAIN conditions : TermMatches(d, conditions[i]))

Min(a, b) == IF a < b THEN a ELSE b

\* The hits a search with limit=limit keeps of the matching documents.
Top(matches, limit) == SubSeq(matches, 1, Min(limit, Len(matches)))

\* The edit distance of two terms.
RECURSIVE Lev(_, _)
Lev(a, b) ==
    IF Len(a) = 0 THEN Len(b)
    ELSE IF Len(b) = 0 THEN Len(a)
    ELSE IF Head(a) = Head(b) THEN Lev(Tail(a), Tail(b))
    ELSE 1 + Min(Lev(Tail(a), Tail(b)), Min(Lev(Tail(a), b), Lev(a, Tail(b))))

\* FuzzyTerm(.., maxdist=dist, prefixlength=1): the indexed term shares the
\* query term's first character and is within dist edits of it.
Within(term, text, dist) ==
    /\ Len(term) >= 1 /\ Len(text) >= 1
    /\ term[1] = text[1]
    /\ Lev(term, text) <= dist

\* ------------------------------------------------------ _add_description

\* JSON null / Python None.
None == "None"

\* json.load of placecodes.json.
TableOf(file) == IF file = "table" THEN CodeTable ELSE <<>>

\* _add_description: if not self.place_codes
NeedsLoad(cache) == cache \in {"none", "empty"}

NoDescr ==
    [feature_class_descr |-> None, feature_code_short |-> None,
     feature_code_full |-> None]

\* _add_description, after the table is loaded: the three description fields.
Describe(atb, table) ==
    LET fclass == IF atb.feature_class \in DOMAIN table
                  THEN table[atb.feature_class]
                  ELSE [descr |-> None, codes |-> <<>>]
        fcode == IF atb.feature_code \in DOMAIN fclass.codes
                 THEN fclass.codes[atb.feature_code]
                 ELSE <<>>
    IN  [feature_class_descr |-> fclass.descr,
         feature_code_short |-> IF "short" \in DOMAIN fcode THEN fcode.short ELSE "",
         feature_code_full |-> IF "full" \in DOMAIN fcode THEN fcode.full ELSE ""]

\* -------------------------------------------------------- _add_hierarchy

\* fnum = ["1", "2", "3", "4"]
NumLevels == 4

\* "admin" + l + "_code"
AdminField(l) ==
    CASE l = 1 -> "admin1_code" [] l = 2 -> "admin2_code"
      [] l = 3 -> "admin3_code" [] OTHER -> "admin4_code"

\* "adm" + l
AdmCode(l) ==
    CASE l = 1 -> "adm1" [] l = 2 -> "adm2" [] l = 3 -> "adm3" [] OTHER -> "adm4"

\* excludeatb
ExcludeAtb ==
    {AdminField(l) : l \in 1..NumLevels}
    \cup {"feature_code", "feature_class", "country_code", "cc2"}

\* for key in excludeatb: other.pop(key, None)
Strip(other) == [key \in DOMAIN other \ ExcludeAtb |-> other[key]]

\* A slip in _add_hierarchy: if len(results) >= 1.
HierarchyAnyMatch(n) == n >= 1

\* _add_hierarchy: if len(results) == 1
HierarchyUnique(n) == n = 1

\* The loop of _add_hierarchy from level l on: the admin levels attached and
\* the index reads issued.
RECURSIVE HierarchyLoop(_, _, _, _, _, _)
HierarchyLoop(atb, content, l, conditions, admin, n) ==
    IF l > NumLevels THEN [admin |-> admin, reads |-> n]
    ELSE LET adminvalue == Lower(atb[AdminField(l)])
         IN  IF adminvalue = "" THEN [admin |-> admin, reads |-> n]
             ELSE LET conds == Append(conditions, Term(AdminField(l), adminvalue))
                      results == SearchAnd(content,
                                           Append(conds, Term("feature_code", AdmCode(l))))
                  IN  IF HierarchyUnique(Len(results))
                      THEN HierarchyLoop(atb, content, l + 1, conds,
                                         admin @@ (l :> Strip(results[1])), n + 1)
                      ELSE [admin |-> admin, reads |-> n + 1]

AddHierarchy(atb, content) ==
    HierarchyLoop(atb, content, 1,
                  <<Term("country_code", Lower(atb.country_code))>>, <<>>, 0)

\* ------------------------------------------------------------- _response

\* The loop of _response from hit i on. acc holds the list found, the reads
\* of each hit's _add_hierarchy, self.place_codes and the exception raised.
\* _add_description opens placecodes.json when self.place_codes is empty:
\* open() on an absent file raises FileNotFoundError.
RECURSIVE ResponseLoop(_, _, _, _, _, _)
ResponseLoop(result, i, content, c, file, acc) ==
    IF i > Len(result) \/ acc.raised # "none" THEN acc
    ELSE LET atb == result[i]
             load == c.expand_codes /\ NeedsLoad(acc.cache)
         IN  IF load /\ file = "absent"
             THEN [acc EXCEPT !.raised = "FileNotFoundError"]
             ELSE LET cache == IF load THEN file ELSE acc.cache
                      h == IF c.hierarchy THEN AddHierarchy(atb, content)
                           ELSE [admin |-> <<>>, reads |-> 0]
                      hit == [place |-> atb,
                              expanded |-> c.expand_codes,
                              descr |-> IF c.expand_codes
                                        THEN Describe(atb, TableOf(cache))
                                        ELSE NoDescr,
                              admin |-> h.admin]
                  IN  ResponseLoop(result, i + 1, content, c, file,
                                   [found |-> Append(acc.found, hit),
                                    reads |-> Append(acc.reads, h.reads),
                                    cache |-> cache,
                                    raised |-> "none"])

Response(result, content, c, cache, file) ==
    ResponseLoop(result, 1, content, c, file,
                 [found |-> <<>>, reads |-> <<>>, cache |-> cache, raised |-> "none"])

\* ------------------------------------------------------------------ find

\* A slip in find: the validation lets one more distance through.
InvalidMaxdistOffByOne(maxdist) == maxdist > 3

\* find: if maxdist > 2
InvalidMaxdist(maxdist) == maxdist > 2

\* find: the list levels
Levels(maxdist) ==
    <<"exact">> \o (IF maxdist # 0 THEN <<"single">> ELSE <<>>)
                \o (IF maxdist = 2 THEN <<"double">> ELSE <<>>)

\* The edit distance of a tier's term class: wq.FuzzyTerm (maxdist=1) for
\* single, FuzzyTerm2 (maxdist=2) for double.
TierDistance(level) == IF level = "single" THEN 1 ELSE 2

\* The parsed query of a tier matches a document. name stands for the terms
\* of the three searched fields (name, asciiname, alternatenames).
NameMatches(doc, querystr, level) ==
    IF level = "exact" THEN doc.name = querystr
    ELSE Within(doc.name, querystr, TierDistance(level))

TierHits(content, querystr, level, limit) ==
    Top(SelectSeq(content, LAMBDA d : NameMatches(d, querystr, level)), limit)

\* A slip in find: the loop over the tiers never breaks.
NeverBreaks(f) == FALSE

\* find: if found: break
Breaks(f) == f # <<>>

\* find(querystr, limit, maxdist, hierarchy, expand_codes), up to the loop
\* over the tiers: the validation, then the searcher and the list levels.
FindCall(querystr, limit, maxdist, hierarchy, expand_codes) ==
    /\ qpc = "idle"
    /\ indexExists
    /\ call' = Call("find", querystr, 0, 0, 0, limit, maxdist, hierarchy, expand_codes)
    /\ IF InvalidMaxdist(maxdist)
       THEN /\ raised' = "ValueError"
            /\ qpc' = "done"
            /\ UNCHANGED <<searcher, levels>>
       ELSE /\ searcher' = [open |-> TRUE, content |-> index]
            /\ levels' = Levels(maxdist)
            /\ qpc' = "tiers"
            /\ UNCHANGED raised
    /\ UNCHANGED <<diskVars, placecodes, buildVars, queried, reads, found,
                   place_codes>>

\* One turn of find's loop over the tiers: the tier's search, _response on
\* its hits, and the break; after the last turn find returns found.
FindTier ==
    /\ qpc = "tiers"
    /\ \E level \in {levels[Len(queried) + 1]} :
       \E res \in {TierHits(searcher.content, call.querystr, level, call.limit)} :
       \E r \in {Response(res, searcher.content, call, place_codes, placecodes)} :
           /\ queried' = Append(queried, [level |-> level, hits |-> Len(res)])
           /\ IF r.raised # "none"
              THEN /\ raised' = r.raised
                   /\ qpc' = "done"
                   /\ UNCHANGED <<found, reads, place_codes>>
              ELSE /\ found' = r.found
                   /\ reads' = r.reads
                   /\ place_codes' = r.cache
                   /\ qpc' = IF Breaks(r.found) \/ Len(queried) + 1 = Len(levels)
                             THEN "done" ELSE "tiers"
                   /\ UNCHANGED raised
    /\ UNCHANGED <<diskVars, placecodes, buildVars, call, searcher, levels>>

\* wq.NumericRange(field, start, end): both ends are included.
InRange(value, start, end) == start <= value /\ value <= end

\* findpos(lat, lon, limit, range, hierarchy, expand_codes)
FindPosCall(lat, lon, limit, range, hierarchy, expand_codes) ==
    /\ qpc = "idle"
    /\ indexExists
    /\ \E c \in {Call("findpos", <<>>, lat, lon, range, limit, 0, hierarchy, expand_codes)} :
       \E res \in {Top(SelectSeq(index,
                                  LAMBDA d : /\ InRange(d.latitude, lat - range, lat + range)
                                             /\ InRange(d.longitude, lon - range, lon + range)),
                        limit)} :
       \E r \in {Response(res, index, c, place_codes, placecodes)} :
           /\ call' = c
           /\ searcher' = [open |-> TRUE, content |-> index]
           /\ qpc' = "done"
           /\ IF r.raised # "none"
              THEN /\ raised' = r.raised
                   /\ UNCHANGED <<found, reads, place_codes>>
              ELSE /\ found' = r.found
                   /\ reads' = r.reads
                   /\ place_codes' = r.cache
                   /\ UNCHANGED raised
    /\ UNCHANGED <<diskVars, placecodes, buildVars, levels, queried>>

\* The query has returned or raised; the GeoSearch object is ready for the
\* next one and keeps self.place_codes.
QueryReturn ==
    /\ qpc = "done"
    /\ qpc' = "idle"
    /\ call' = NoCall
    /\ searcher' = NoSearcher
    /\ levels' = <<>>
    /\ queried' = <<>>
    /\ reads' = <<>>
    /\ found' = <<>>
    /\ raised' = "none"
    /\ UNCHANGED <<diskVars, placecodes, buildVars, place_codes>>

\* ------------------------------------------------- the query specifications

\* find's default limit.
DefaultLimit == 10
Limits == {1, DefaultLimit}

\* A GeoSearch object over an index that earlier builds committed.
InitQuery(places, n) ==
    /\ dirExists = TRUE
    /\ indexExists = TRUE
    /\ index \in BoundedSeq(places, n)
    /\ pre = [dir |-> TRUE, exists |-> TRUE, content |-> index]
    /\ lastPub = Pub("pre", 0, FALSE, index)
    /\ placecodes \in CodeFiles
    /\ bpc = "idle"
    /\ mode = TRUE
    /\ overwrite = TRUE
    /\ append = TRUE
    /\ nfiles = 0
    /\ iline = 0
    /\ writer = NoWriter
    /\ fed = <<>>
    /\ failedFiles = {}
    /\ view = NoView
    /\ QueryIdle

\* Places for the name search: the names ab, ac, acd and bb; a feature code
\* the table has, one it lacks, and a feature class it lacks.
N1 == Place("n1", <<"a", "b">>, 0, 0, "P", "PPL", "BR", "", "", "", "")
N2 == Place("n2", <<"a", "c">>, 0, 0, "P", "PPLX", "BR", "", "", "", "")
N3 == Place("n3", <<"a", "c", "d">>, 0, 0, "H", "LK", "BR", "", "", "", "")
N4 == Place("n4", <<"b", "b">>, 0, 0, "P", "PPL", "BR", "", "", "", "")
NamePlaces == {N1, N2, N3, N4}

\* Query strings: ab (an exact match), add (within one edit of acd only),
\* aee (within two edits of ab, ac and acd only), c (no match).
Queries == {<<"a", "b">>, <<"a", "d", "d">>, <<"a", "e", "e">>, <<"c">>}
MaxDists == -1..MaxDistTried

InitFind == InitQuery(NamePlaces, MaxDocs)

NextFind ==
    \/ \E querystr \in Queries, limit \in Limits, maxdist \in MaxDists,
          hierarchy \in BOOLEAN, expand_codes \in BOOLEAN :
          FindCall(querystr, limit, maxdist, hierarchy, expand_codes)
    \/ FindTier
    \/ QueryReturn

SpecFind == InitFind /\ [][NextFind]_vars

\* Places for the hierarchy resolver: the ADM1 .. ADM4 records of one chain
\* of admin codes, a city in it, and an ADM1 record of a country whose code
\* is a stop word.
A1 == Place("a1", <<"s">>, 0, 0, "A", "ADM1", "BR", "SP", "", "", "")
A2 == Place("a2", <<"c">>, 0, 0, "A", "ADM2", "BR", "SP", "35", "", "")
A3 == Place("a3", <<"d">>, 0, 0, "A", "ADM3", "BR", "SP", "35", "07", "")
A4 == Place("a4", <<"e">>, 0, 0, "A", "ADM4", "BR", "SP", "35", "07", "X1")
City == Place("c1", <<"v">>, 0, 0, "P", "PPL", "BR", "SP", "35", "07", "X1")
U1 == Place("u1", <<"k">>, 0, 0, "A", "ADM1", "US", "CA", "", "", "")
AdminPlaces == {A1, A2, A3, A4, City, U1}

InitHier == InitQuery(AdminPlaces, MaxAdminDocs)

NextHier ==
    \/ \E limit \in Limits, hierarchy \in BOOLEAN, expand_codes \in BOOLEAN :
          FindPosCall(0, 0, limit, 0, hierarchy, expand_codes)
    \/ QueryReturn

SpecHier == InitHier /\ [][NextHier]_vars

\* Places for the bounding-box search, on the corners of a rectangle.
G1 == Place("g1", <<"g">>, 0, 0, "P", "PPL", "BR", "", "", "", "")
G2 == Place("g2", <<"h">>, 0, 3, "P", "PPL", "BR", "", "", "", "")
G3 == Place("g3", <<"i">>, 2, 0, "P", "PPL", "BR", "", "", "", "")
G4 == Place("g4", <<"j">>, 2, 3, "P", "PPL", "BR", "", "", "", "")
GeoPlaces == {G1, G2, G3, G4}
Coords == 0..3
Ranges == -1..2

InitPos == InitQuery(GeoPlaces, MaxGeoDocs)

NextPos ==
    \/ \E lat \in Coords, lon \in Coords, limit \in Limits, range \in Ranges,
          hierarchy \in BOOLEAN, expand_codes \in BOOLEAN :
          FindPosCall(lat, lon, limit, range, hierarchy, expand_codes)
    \/ QueryReturn

SpecPos == InitPos /\ [][NextPos]_vars

\* ------------------------------------------------------ claims on the build

\* The records the build has read, in order.
FedRecs == [i \in 1..Len(fed) |-> fed[i].line.rec]
FedIds == {fed[i].line.rec.geonameid : i \in 1..Len(fed)}
CountId(docs, id) == Cardinality({i \in DOMAIN docs : docs[i].geonameid = id})
LastFed(id) ==
    LET last == CHOOSE i \in 1..Len(fed) :
                    /\ fed[i].line.rec.geonameid = id
                    /\ \A j \in (i + 1)..Len(fed) : fed[j].line.rec.geonameid # id
    IN  fed[last].line.rec
DistinctFedIds == Cardinality(FedIds) = Len(fed)
Docs(docs) == {docs[i] : i \in DOMAIN docs}
WithoutFedIds(docs) == SelectSeq(docs, LAMBDA d : d.geonameid \notin FedIds)

\* download has returned after at least one file, and no file failed.
BuildDoneOK(ow) ==
    bpc = "done" /\ mode = ow /\ nfiles >= 1 /\ failedFiles = {}

\* C2, as claimed: a REPLACE build (overwrite=True) upserts by id, so the
\* index ends with exactly one document per distinct id of the input, the last
\* record read with that id.
C2_ReplaceUpsertsById ==
    BuildDoneOK(TRUE) =>
        /\ Len(index) = Cardinality(FedIds)
        /\ \A id \in FedIds : CountId(index, id) = 1 /\ LastFed(id) \in Docs(index)

\* C2, amended: a REPLACE build whose files all index without error adds every
\* record it reads to a newly created index (add_document): the index ends as
\* the input records in input order, one document per record, so a repeated id
\* yields repeated documents, and N records with distinct ids yield N documents
\* and no duplicate id.
C2_ReplaceAddsEveryRecord ==
    BuildDoneOK(TRUE) =>
        /\ index = FedRecs
        /\ DistinctFedIds =>
              /\ Len(index) = Len(fed)
              /\ \A id \in FedIds : CountId(index, id) = 1

\* C2's case: a REPLACE build over a non-empty index has read the same id in
\* two different files.
C2_Witness ==
    /\ BuildDoneOK(TRUE)
    /\ pre.content # <<>>
    /\ \E i, j \in 1..Len(fed) :
          /\ fed[i].file < fed[j].file
          /\ fed[i].line.rec.geonameid = fed[j].line.rec.geonameid

C6_ReaderSeesPreOrPost ==
    (bpc = "done" /\ view.open) =>
        (view.content = pre.content \/ view.content = index)

\* C6, amended: a searcher opened while a build runs reads what create_in or a
\* commit published last: the content from before the build, the empty index
\* that _indexfile creates before it inserts anything, or the content after a
\* commit that closes a whole batch (BatchSize lines of the file, or the
\* file's final lines). That content may be neither the pre-build nor the
\* final content; it never holds a record the writer has not committed.
C6_ReaderSeesWholeBatches ==
    /\ index = lastPub.content
    /\ view.open =>
          /\ view.content = view.pub.content
          /\ view.pub.kind \in {"pre", "create", "commit"}
          /\ view.pub.kind = "pre" => view.content = pre.content
          /\ view.pub.kind = "create" => view.content = <<>>
          /\ view.pub.kind = "commit" =>
                /\ view.pub.lines >= 1 \/ view.pub.eof
                /\ view.pub.lines % BatchSize = 0 \/ view.pub.eof

\* C6's case: a searcher has opened on the content of a batch commit while the
\* writer holds uncommitted records of the next batch.
C6_Witness ==
    /\ bpc = "file"
    /\ writer.buffer # <<>>
    /\ view.open
    /\ view.pub.kind = "commit"
    /\ ~view.pub.eof
    /\ view.content = index
    /\ view.content # pre.content

\* C7, as claimed: an APPEND build against a missing index fails (the build
\* ends "failed", with IndexNotFoundError), creates no index and inserts
\* nothing.
C7_AppendFailsWithoutIndex ==
    (bpc \in {"done", "failed"} /\ ~mode /\ ~pre.exists /\ nfiles >= 1) =>
        (bpc = "failed" /\ ~indexExists /\ index = <<>>)

\* C7, amended: an APPEND build never ends with an error of the index. When
\* the index directory does not exist, the first file creates the directory
\* and an empty index, and the build inserts into it: if no file fails, the
\* index ends with input records only, the last record of each id among them.
\* When the directory exists without an index, every file fails with
\* EmptyIndexError, which download swallows: no index is created and no line
\* is read.
C7_AppendCreatesMissingIndex ==
    (bpc = "done" /\ ~mode /\ ~pre.exists /\ nfiles >= 1) =>
        /\ ~pre.dir =>
              /\ dirExists /\ indexExists
              /\ failedFiles = {} =>
                    /\ Docs(index) \subseteq Docs(FedRecs)
                    /\ \A id \in FedIds : LastFed(id) \in Docs(index)
        /\ pre.dir =>
              /\ ~indexExists /\ index = <<>>
              /\ fed = <<>>
              /\ failedFiles = 1..nfiles

\* C7's case: an APPEND build on a missing directory has returned with
\* documents in the index it created.
C7_Witness ==
    /\ bpc = "done" /\ ~mode /\ ~pre.dir /\ ~pre.exists
    /\ failedFiles = {}
    /\ index # <<>>

\* The well-formed records read from file f, in order.
GoodRecsOf(f) ==
    LET lines == SelectSeq(fed, LAMBDA e : e.file = f /\ e.line.nfields = NumFields)
    IN  [i \in 1..Len(lines) |-> lines[i].line.rec]

\* What file f has committed when download has left it: all its records when
\* it indexed without error, the whole batches before the failure otherwise.
CommittedOf(f) ==
    IF f \notin failedFiles THEN GoodRecsOf(f)
    ELSE SubSeq(GoodRecsOf(f), 1, (Len(GoodRecsOf(f)) \div BatchSize) * BatchSize)

\* The files download has left that indexed without error.
SucceededFiles == (1..nfiles) \ failedFiles

\* The last file that re-created the index according to the claim: the first
\* file that indexed without error, or the last file left when none did.
LastRecreating ==
    IF SucceededFiles = {} THEN nfiles
    ELSE CHOOSE f \in SucceededFiles : \A g \in SucceededFiles : f <= g

RECURSIVE CommittedFrom(_)
CommittedFrom(f) ==
    IF f > nfiles THEN <<>> ELSE CommittedOf(f) \o CommittedFrom(f + 1)

\* Document d occurs in docs at least as often as in recs.
CoveredBy(recs, docs) ==
    \A d \in Docs(recs) :
        Cardinality({i \in DOMAIN recs : recs[i] = d})
            <= Cardinality({i \in DOMAIN docs : docs[i] = d})

\* C11: in a REPLACE build (overwrite=True) that has left at least one file,
\* whatever files failed, the index was re-created for each file up to and
\* including the first that indexed without error and only opened afterwards:
\* between files and at the end the index is what the files from the last
\* re-creating one on have committed, in order. So every record of every file
\* that indexed without error is in the index, a later failing file has
\* removed nothing an earlier file committed, and no document of the
\* pre-build index remains (every document comes from a file of the build).
C11_ReplaceRecreatesUntilFirstSuccess ==
    (bpc \in {"loop", "done"} /\ mode /\ nfiles >= 1) =>
        /\ overwrite = (SucceededFiles = {})
        /\ index = CommittedFrom(LastRecreating)
        /\ \A f \in SucceededFiles : CoveredBy(GoodRecsOf(f), index)
        /\ Len(index) <= Len(fed)
        /\ \A i \in DOMAIN index :
              \E j \in 1..Len(fed) :
                  fed[j].file >= LastRecreating /\ fed[j].line.rec = index[i]

\* C11's case: a REPLACE build over a non-empty index has returned after a
\* file that failed behind a well-formed record, then a file that indexed
\* records without error: the index holds documents, none of them one of the
\* pre-build index.
C11_Witness ==
    /\ bpc = "done" /\ mode
    /\ pre.content # <<>>
    /\ \E f \in SucceededFiles :
          /\ GoodRecsOf(f) # <<>>
          /\ \E e \in failedFiles : e < f /\ GoodRecsOf(e) # <<>>
    /\ index # <<>>
    /\ Docs(index) \cap Docs(pre.content) = {}


\* ---------------------------------------------------- claims on the queries

TierOrder == <<"exact", "single", "double">>
FoundPlaces == [i \in DOMAIN found |-> found[i].place]

\* C1: a find with maxdist = 2 queries the tiers in the order exact, single,
\* double; a tier is queried only after every earlier tier returned nothing;
\* the search ends at the first tier with a hit, or after the three tiers; and
\* what it returns is the hits of the tier queried last, and of no other.
C1_TiersInOrderNoBlending ==
    (call.op = "find" /\ call.maxdist = 2) =>
        /\ Len(queried) <= Len(TierOrder)
        /\ \A i \in DOMAIN queried :
              /\ queried[i].level = TierOrder[i]
              /\ queried[i].hits =
                    Len(TierHits(searcher.content, call.querystr, TierOrder[i], call.limit))
              /\ i < Len(queried) => queried[i].hits = 0
        /\ qpc = "tiers" => \A i \in DOMAIN queried : queried[i].hits = 0
        /\ qpc = "done" =>
              /\ Len(queried) >= 1
              /\ queried[Len(queried)].hits = 0 => Len(queried) = Len(TierOrder)
              /\ FoundPlaces =
                    IF raised = "none"
                    THEN TierHits(searcher.content, call.querystr,
                                  TierOrder[Len(queried)], call.limit)
                    ELSE <<>>

\* C1's case: a find with maxdist = 2 has returned the hits of the single
\* tier, after an empty exact tier, and the double tier holds more hits.
C1_Witness ==
    /\ qpc = "done" /\ call.op = "find" /\ call.maxdist = 2
    /\ Len(queried) = 2
    /\ found # <<>>
    /\ Len(TierHits(searcher.content, call.querystr, "double", call.limit)) > Len(found)

\* The containment query of level N for the hit atb matches the document:
\* the country code, the admin codes of the levels up to N and the feature
\* code ADM+N.
Contains(doc, atb, N) ==
    /\ Lower(atb.country_code) \in Tokens(doc.country_code)
    /\ \A K \in 1..N : Lower(atb[AdminField(K)]) \in Tokens(doc[AdminField(K)])
    /\ AdmCode(N) \in Tokens(doc.feature_code)
Containing(content, atb, N) == {j \in DOMAIN content : Contains(content[j], atb, N)}
LevelResolves(content, atb, N) ==
    atb[AdminField(N)] # "" /\ Cardinality(Containing(content, atb, N)) = 1
\* The first level that does not resolve, or NumLevels + 1.
FirstFailing(content, atb) ==
    LET failing == {N \in 1..NumLevels : ~LevelResolves(content, atb, N)}
    IN  IF failing = {} THEN NumLevels + 1
        ELSE CHOOSE N \in failing : \A M \in failing : N <= M

C5_BoundingBoxExact ==
    (qpc = "done" /\ call.op = "findpos" /\ call.limit >= Len(index)) =>
        FoundPlaces =
            SelectSeq(index,
                      LAMBDA d : /\ call.lat - call.range <= d.latitude
                                 /\ d.latitude <= call.lat + call.range
                                 /\ call.lon - call.range <= d.longitude
                                 /\ d.longitude <= call.lon + call.range)

\* The same, for the searches that end without an exception.
BoundingBoxExactUnlessRaised ==
    raised = "none" => C5_BoundingBoxExact

\* C8, as claimed: a search that enriches its hits (expand_codes) never fails
\* for lack of feature-code metadata: it returns the hits of its last tier,
\* each with the table's descriptions, or with empty ones where the table
\* lacks the class or the code or the table file is absent.
C8_EnrichNeverFails ==
    (qpc = "done" /\ call.op = "find" /\ call.expand_codes
        /\ call.maxdist \in 0..2) =>
        /\ raised = "none"
        /\ Len(found) = queried[Len(queried)].hits
        /\ \A i \in DOMAIN found :
              LET atb == found[i].place
                  known == placecodes = "table" /\ atb.feature_class \in DOMAIN CodeTable
              IN  /\ found[i].expanded
                  /\ found[i].descr.feature_class_descr =
                        IF known THEN CodeTable[atb.feature_class].descr ELSE None
                  /\ (~known \/ atb.feature_code \notin DOMAIN CodeTable[atb.feature_class].codes)
                        => /\ found[i].descr.feature_code_short = ""
                           /\ found[i].descr.feature_code_full = ""

\* The same, for the searches that find placecodes.json on disk.
EnrichDegradesWhenFilePresent ==
    placecodes # "absent" => C8_EnrichNeverFails

\* C9: a find with maxdist > 2 ends with ValueError before any index access:
\* no searcher is opened, no tier is queried and nothing is returned.
C9_InvalidMaxdistRaises ==
    (call.op = "find" /\ call.maxdist > 2) =>
        /\ qpc = "done"
        /\ raised = "ValueError"
        /\ ~searcher.open
        /\ levels = <<>>
        /\ queried = <<>>
        /\ found = <<>>
        /\ reads = <<>>

\* C9's case: a find with maxdist > 2 on an index that holds an exact match
\* of the query string.
C9_Witness ==
    /\ call.op = "find" /\ call.maxdist > 2
    /\ \E i \in DOMAIN index : index[i].name = call.querystr

\* C10, as claimed: for every maxdist that passes the validation, the single
\* tier is queried only if maxdist >= 1 and the double tier only if
\* maxdist = 2; a search with maxdist below 1 queries the exact tier only.
C10_FuzzyTiersNeedDistance ==
    (call.op = "find" /\ call.maxdist <= 2) =>
        \A i \in DOMAIN queried :
            /\ queried[i].level = "single" => call.maxdist >= 1
            /\ queried[i].level = "double" => call.maxdist = 2

\* The same, for the distances 0, 1 and 2.
FuzzyTiersNeedDistanceFromZero ==
    call.maxdist >= 0 => C10_FuzzyTiersNeedDistance

====
